---- MODULE Spec2Model ----
\* Model of cobbi/core/cost_function.py: create_cost_func, cost_function,
\* get_costs and LocalMeanSquaredDifference.
\*
\* Tensors are 2-D grids of integers (F[r][c], rows and columns counted
\* from 1).  Quotients are kept as exact fractions [n, d]; a zero
\* denominator stands for the non-finite float the division produces.
\* float32 rounding is not modelled.
EXTENDS Integers, Sequences, FiniteSets, TLC

\* ------------------------------------------------------------------ bounds
Rows == 3
Cols == 3
MaxCalls == 2

RowIdx == 1..Rows
ColIdx == 1..Cols
Cells == RowIdx \X ColIdx
InteriorCells == (2..(Rows - 1)) \X (2..(Cols - 1))

NoValue == "None"
\* an entry of a backward rule's result: None, or a gradient tensor
NoGrad == [none |-> TRUE]
Grad(t) == [none |-> FALSE, value |-> t]

\* ------------------------------------------------------- tensor arithmetic
RECURSIVE SumOver(_, _)
SumOver(f, S) ==
    IF S = {} THEN 0
    ELSE LET p == CHOOSE q \in S : TRUE
         IN  f[p] + SumOver(f, S \ {p})

\* tensor.sum()
TSum(F) == SumOver([p \in Cells |-> F[p[1]][p[2]]], Cells)

\* a - b, a * b (element-wise, equal shapes)
TSub(A, B) == [r \in RowIdx |-> [c \in ColIdx |-> A[r][c] - B[r][c]]]
TMul(A, B) == [r \in RowIdx |-> [c \in ColIdx |-> A[r][c] * B[r][c]]]

\* 1. - mask
OneMinus(M) == [r \in RowIdx |-> [c \in ColIdx |-> 1 - M[r][c]]]

\* tensor.pow(2).sum()
SqSum(F) == SumOver([p \in Cells |-> F[p[1]][p[2]] * F[p[1]][p[2]]], Cells)

\* ref_surf.numel()
Numel == Rows * Cols

Frac(n, d) == [n |-> n, d |-> d]
FZero == Frac(0, 1)
\* lambdas[i] * (x / y)
Scale(l, q) == Frac(l * q.n, q.d)

\* index sets of the sliced operands: [:, :-2] and [:-2, :]
XCells == RowIdx \X (1..(Cols - 2))
YCells == (1..(Rows - 2)) \X ColIdx

\* sum of squares of (F[:, :-2] - F[:, 2:]) * M[:, 1:-1] and of
\* (F[:-2, :] - F[2:, :]) * M[1:-1, :]
D1SqSum(F, M) ==
    SumOver([p \in XCells |->
               LET v == (F[p[1]][p[2]] - F[p[1]][p[2] + 2]) * M[p[1]][p[2] + 1]
               IN  v * v], XCells)
    + SumOver([p \in YCells |->
               LET v == (F[p[1]][p[2]] - F[p[1] + 2][p[2]]) * M[p[1] + 1][p[2]]
               IN  v * v], YCells)

\* sum of squares of (F[:, :-2] + F[:, 2:] - 2 F[:, 1:-1]) * M[:, 1:-1] and
\* of (F[:-2, :] + F[2:, :] - 2 F[1:-1, :]) * M[1:-1, :]
D2SqSum(F, M) ==
    SumOver([p \in XCells |->
               LET v == (F[p[1]][p[2]] + F[p[1]][p[2] + 2]
                         - 2 * F[p[1]][p[2] + 1]) * M[p[1]][p[2] + 1]
               IN  v * v], XCells)
    + SumOver([p \in YCells |->
               LET v == (F[p[1]][p[2]] + F[p[1] + 2][p[2]]
                         - 2 * F[p[1] + 1][p[2]]) * M[p[1] + 1][p[2]]
               IN  v * v], YCells)

\* mask[1:-1, 1:-1].sum()
InteriorSum(M) == SumOver([p \in InteriorCells |-> M[p[1]][p[2]]], InteriorCells)

\* ------------------------------------------------------------- get_costs
\* cost = torch.zeros(10): nine weighted terms and the misfit in the last slot
NSlots == 10
NTerms == NSlots - 1
TermIdx == 0..(NTerms - 1)

\* lambdas[i] on a 1-D tensor: an index past the end raises IndexError
LambdaAtLenient(lambdas, i) ==
    IF i < Len(lambdas) THEN [raised |-> "none", value |-> lambdas[i + 1]]
    ELSE [raised |-> "none", value |-> 0]

LambdaAt(lambdas, i) ==
    IF i < Len(lambdas) THEN [raised |-> "none", value |-> lambdas[i + 1]]
    ELSE [raised |-> "IndexError", value |-> 0]

\* `if lambdas[i] != 0:`
TermEnabledAlways(lambdas, i) == TRUE

TermEnabled(lambdas, i) == LambdaAt(lambdas, i).value # 0

\* The expression a term divides by, named by where the source evaluates it.
NormExpr(i) ==
    CASE i \in {0, 1, 4, 7} -> "n_inner_mask @189"
      [] i = 2 -> "(n_grid - n_ice_mask) @219"
      [] i = 3 -> "(n_grid - n_ice_mask) @227"
      [] i = 5 -> "(2. * n_inner_mask) @246"
      [] i = 6 -> "(2 * (ref_ice_mask - model_inner_mask)[1:-1, 1:-1].sum()) @256"
      [] i = 8 -> "ice_region.sum() @284"

\* LocalMeanSquaredDifference.forward
LmsdForward(modelled_surf, surface_to_match, ice_region, ice_mask, bed) ==
    Frac(SqSum(TSub(modelled_surf, surface_to_match)), TSum(ice_region))

\* LocalMeanSquaredDifference.backward: one entry per input of forward, in
\* the order of forward's parameters
LmsdBackward(modelled_surf, observed_surf, ice_region, ice_mask, bed) ==
    LET grad_modelled_surf == TMul(TSub(modelled_surf, observed_surf), ice_mask)
    IN  <<NoGrad, NoGrad, NoGrad, NoGrad, Grad(grad_modelled_surf)>>

\* The quotient of term i before it is weighted by lambdas[i].
TermQuotient(i, ref_surf, ref_ice_mask, guessed_bed, model_surf, model_inner_mask, dx) ==
    LET n_inner_mask == TSum(model_inner_mask)
        n_ice_mask == TSum(ref_ice_mask)
        n_grid == Numel
        it == TSub(model_surf, guessed_bed)
        ring == TSub(ref_ice_mask, model_inner_mask)
    IN  CASE i = 0 -> Frac(D1SqSum(it, model_inner_mask),
                           (2 * dx) * (2 * dx) * n_inner_mask)
          [] i = 1 -> Frac(D1SqSum(guessed_bed, model_inner_mask),
                           dx * dx * n_inner_mask)
          [] i = 2 -> Frac(SqSum(TMul(it, OneMinus(ref_ice_mask))),
                           n_grid - n_ice_mask)
          [] i = 3 -> Frac(SqSum(TMul(TSub(ref_surf, guessed_bed),
                                      OneMinus(ref_ice_mask))),
                           n_grid - n_ice_mask)
          [] i = 4 -> Frac(D2SqSum(it, model_inner_mask),
                           dx * dx * dx * dx * n_inner_mask)
          [] i = 5 -> Frac(D2SqSum(guessed_bed, model_inner_mask),
                           dx * dx * dx * dx * (2 * n_inner_mask))
          [] i = 6 -> Frac(D2SqSum(guessed_bed, ring),
                           dx * dx * dx * dx * (2 * InteriorSum(ring)))
          [] i = 7 -> Frac(D2SqSum(model_surf, model_inner_mask),
                           dx * dx * dx * dx * n_inner_mask)
          [] i = 8 -> LmsdForward(model_surf, ref_surf, ref_ice_mask,
                                  ref_ice_mask, guessed_bed)

\* cost[-1]
Misfit(ref_surf, ref_ice_mask, model_surf) ==
    Frac(SqSum(TSub(ref_surf, model_surf)), TSum(ref_ice_mask))

\* get_costs: the terms are visited in order 0..8; the first lambdas[i] past
\* the end of the vector raises and nothing is returned.
get_costs(lambdas, ref_surf, ref_ice_mask, ref_inner_mask, guessed_bed, model_surf, model_ice_mask, model_inner_mask, dx) ==
    LET failing == {i \in TermIdx : LambdaAt(lambdas, i).raised # "none"}
        visited == {i \in TermIdx : \A j \in failing : i < j}
        entered == {i \in visited : TermEnabled(lambdas, i)}
        evaluated == {"n_inner_mask @189", "n_ice_mask @190", "n_grid @191"}
                     \cup {NormExpr(i) : i \in entered}
        cost == [k \in 0..NTerms |->
                   IF k = NTerms
                   THEN Misfit(ref_surf, ref_ice_mask, model_surf)
                   ELSE IF k \in entered
                   THEN Scale(LambdaAt(lambdas, k).value,
                              TermQuotient(k, ref_surf, ref_ice_mask,
                                           guessed_bed, model_surf,
                                           model_inner_mask, dx))
                   ELSE FZero]
    IN  IF failing # {}
        THEN [op |-> "get_costs", raised |-> "IndexError", cost |-> NoValue,
              entered |-> entered, evaluated |-> evaluated]
        ELSE [op |-> "get_costs", raised |-> "none", cost |-> cost,
              entered |-> entered, evaluated |-> evaluated]

\* ------------------------------------------------------------ inner masks
\* Attributes of torch.Tensor that the module looks up.
TensorAttrs == {"unsqueeze", "sum", "pow", "numel", "type", "detach", "backward", "shape", "grad"}

\* tensor.<name>: a name that torch.Tensor does not define raises
TensorGetAttr(name) == IF name \in TensorAttrs THEN "none" ELSE "AttributeError"

\* torch.conv2d(mask[None, None], torch.ones((1, 1, 3, 3))): the sum of each
\* 3x3 window, one value per interior cell
Conv2d(mask) ==
    [r \in 2..(Rows - 1) |-> [c \in 2..(Cols - 1) |->
        SumOver([p \in (r - 1..r + 1) \X (c - 1..c + 1) |-> mask[p[1]][p[2]]],
                (r - 1..r + 1) \X (c - 1..c + 1))]]

\* inner = torch.zeros(shape); inner[1:-1, 1:-1] = conv == 9
InnerMaskOf(mask) ==
    [r \in RowIdx |-> [c \in ColIdx |->
        IF <<r, c>> \in InteriorCells
        THEN (IF Conv2d(mask)[r][c] = 9 THEN 1 ELSE 0)
        ELSE 0]]

\* The statement as written: `mask.unsqeeze(0)` is evaluated before conv2d
\* is called, and the assignment happens only if it returns.
DeriveInnerMask(mask) ==
    IF TensorGetAttr("unsqeeze") # "none"
    THEN [raised |-> TensorGetAttr("unsqeeze"), value |-> NoValue]
    ELSE [raised |-> "none", value |-> InnerMaskOf(mask)]

\* ((surf - bed) > 0.).type(torch.float)
IceMaskOf(surf, bed) ==
    [r \in RowIdx |-> [c \in ColIdx |-> IF surf[r][c] - bed[r][c] > 0 THEN 1 ELSE 0]]

\* b.reshape(ref_surf.shape) and grad.reshape(b.shape), row-major
Reshape2D(b) == [r \in RowIdx |-> [c \in ColIdx |-> b[(r - 1) * Cols + c]]]
Flatten(F) == [k \in 1..(Rows * Cols) |-> F[((k - 1) \div Cols) + 1][((k - 1) % Cols) + 1]]

\* Forward simulator (cobbi.core.dynamics, outside this module): a function of
\* its arguments; the zero-duration run returns bed + initial thickness.
run_forward_core(yrs_to_run, bed, dx, mb, init_ice_thick) ==
    [r \in RowIdx |-> [c \in ColIdx |-> bed[r][c] + init_ice_thick[r][c]]]

\* c_terms.sum() over fractions; a zero denominator is a non-finite float
Sign(n) == IF n > 0 THEN 1 ELSE IF n < 0 THEN -1 ELSE 0
FAdd(a, b) ==
    IF a.d = 0 /\ b.d = 0 THEN (IF Sign(a.n) = Sign(b.n) THEN a ELSE Frac(0, 0))
    ELSE IF a.d = 0 THEN a
    ELSE IF b.d = 0 THEN b
    ELSE Frac(a.n * b.d + b.n * a.d, a.d * b.d)

RECURSIVE SumSlots(_, _)
SumSlots(cost, k) == IF k = 0 THEN cost[0] ELSE FAdd(SumSlots(cost, k - 1), cost[k])

\* ------------------------------------------------------------------ inputs
FieldKinds == {"flat0", "flat1", "rampx", "rampx2", "rampy", "bump", "dome"}
Field(kind) ==
    [r \in RowIdx |-> [c \in ColIdx |->
        CASE kind = "flat0" -> 0
          [] kind = "flat1" -> 1
          [] kind = "rampx" -> c
          [] kind = "rampx2" -> 2 * c
          [] kind = "rampy" -> r
          [] kind = "bump" -> (IF <<r, c>> = <<2, 2>> THEN 2 ELSE 0)
          [] kind = "dome" -> (IF <<r, c>> \in InteriorCells THEN 3 ELSE 1)]]

MaskKinds == {"ones", "zeros", "interior", "left"}
Mask(kind) ==
    [r \in RowIdx |-> [c \in ColIdx |->
        CASE kind = "ones" -> 1
          [] kind = "zeros" -> 0
          [] kind = "interior" -> (IF <<r, c>> \in InteriorCells THEN 1 ELSE 0)
          [] kind = "left" -> (IF c <= 2 THEN 1 ELSE 0)]]

Const(n, v) == [i \in 1..n |-> v]
\* lambda vectors: every length 0..10 of ones, all zeros, one weight
\* switched off, one weight switched on
LambdaVectors ==
    {Const(n, 1) : n \in 0..NSlots}
    \cup {Const(NTerms, 0)}
    \cup {[Const(NTerms, 1) EXCEPT ![i] = 0] : i \in 1..NTerms}
    \cup {[Const(NTerms, 0) EXCEPT ![i] = 2] : i \in 1..NTerms}

GridSpacings == {1, 2}

\* arguments of a direct get_costs call; the model masks are the ones the
\* model surface and the bed define
GetCostsInputs ==
    [lambdas : LambdaVectors,
     ref_surf : {Field(k) : k \in {"flat1", "rampx", "dome"}},
     ref_ice_mask : {Mask(k) : k \in MaskKinds},
     guessed_bed : {Field(k) : k \in {"flat0", "rampx", "rampy", "bump"}},
     model_surf : {Field(k) : k \in {"flat1", "rampx", "rampx2", "dome"}},
     dx : GridSpacings]

\* the five inputs of LocalMeanSquaredDifference.apply
LmsdInputs ==
    [modelled_surf : {Field(k) : k \in {"flat1", "rampx", "dome"}},
     surface_to_match : {Field(k) : k \in {"flat0", "flat1", "rampy"}},
     ice_region : {Mask(k) : k \in {"ones", "interior", "left"}},
     ice_mask : {Mask(k) : k \in {"ones", "interior", "zeros"}},
     bed : {Field(k) : k \in {"flat0", "bump"}}]

\* arguments of create_cost_func: the reference state, the lambda vector and
\* the optional data logger
EvaluateInputs ==
    [lambdas : {Const(NTerms, 1), Const(NTerms, 0), Const(5, 1), <<>>},
     ref_surf : {Field(k) : k \in {"flat1", "dome"}},
     ref_ice_mask : {Mask(k) : k \in {"ones", "interior", "zeros"}},
     spinup_surf : {Field(k) : k \in {"flat1", "dome"}},
     dx : {1},
     data_logger : {"attached", NoValue}]

\* flat bed vectors handed to the evaluate function
BedVectors == {Flatten(Field(k)) : k \in {"flat0", "rampx", "bump"}}

\* ------------------------------------------------------------------- state
VARIABLES mode, inp, c_fun, created, data_logger, calls, out

vars == <<mode, inp, c_fun, created, data_logger, calls, out>>

EmptyLogger == [c_terms |-> <<>>, costs |-> <<>>, grads |-> <<>>, beds |-> <<>>, surfs |-> <<>>]

Init ==
    /\ mode \in {"evaluate", "get_costs", "lmsd"}
    /\ inp \in (CASE mode = "evaluate" -> EvaluateInputs
                  [] mode = "get_costs" -> GetCostsInputs
                  [] mode = "lmsd" -> LmsdInputs)
    /\ c_fun = NoValue
    /\ created = "not called"
    /\ data_logger = EmptyLogger
    /\ calls = <<>>
    /\ out = [op |-> "none"]

\* create_cost_func: the reference inner mask is built before c_fun is
\* defined, so a raise there leaves the caller without a cost function.
create_cost_func ==
    /\ mode = "evaluate"
    /\ created = "not called"
    /\ LET ref_inner == DeriveInnerMask(inp.ref_ice_mask)
       IN  IF ref_inner.raised # "none"
           THEN /\ created' = ref_inner.raised
                /\ c_fun' = NoValue
           ELSE /\ created' = "returned"
                /\ c_fun' = [ref_surf |-> inp.ref_surf,
                             ref_ice_mask |-> inp.ref_ice_mask,
                             ref_inner_mask |-> ref_inner.value,
                             spinup_surf |-> inp.spinup_surf]
    /\ UNCHANGED <<mode, inp, data_logger, calls, out>>

\* The outcome of one cost_function call: what it raises or returns, and
\* the logger it leaves behind.
cost_function(b, lambdas, ref_surf, ref_ice_mask, spinup_surf, dx, logger, attached) ==
    LET guessed_bed == Reshape2D(b)
        init_ice_thick == TSub(spinup_surf, guessed_bed)
        model_surf == run_forward_core("yrs_to_run", guessed_bed, dx, "mb", init_ice_thick)
        model_ice_mask == IceMaskOf(model_surf, guessed_bed)
        model_inner == DeriveInnerMask(model_ice_mask)
        c_terms == get_costs(lambdas, ref_surf, ref_ice_mask, NoValue, guessed_bed,
                             model_surf, model_ice_mask, model_inner.value, dx)
        c == SumSlots(c_terms.cost, NSlots - 1)
        \* guessed_bed.grad after c.backward(), not expanded
        g == [backward_of |-> c_terms.cost, wrt |-> guessed_bed]
        grad == g
        cost == c
    IN  IF model_inner.raised # "none"
        THEN [raised |-> model_inner.raised, ret |-> NoValue, logger |-> logger,
              model_ice_mask |-> model_ice_mask, model_inner_mask |-> NoValue,
              c_terms |-> NoValue]
        ELSE IF c_terms.raised # "none"
        THEN [raised |-> c_terms.raised, ret |-> NoValue, logger |-> logger,
              model_ice_mask |-> model_ice_mask,
              model_inner_mask |-> model_inner.value, c_terms |-> NoValue]
        ELSE [raised |-> "none", ret |-> <<cost, grad>>,
              model_ice_mask |-> model_ice_mask,
              model_inner_mask |-> model_inner.value, c_terms |-> c_terms.cost,
              logger |-> IF attached
                         THEN [c_terms |-> Append(logger.c_terms, c),
                               costs |-> Append(logger.costs, cost),
                               grads |-> Append(logger.grads, grad),
                               beds |-> Append(logger.beds, guessed_bed),
                               surfs |-> Append(logger.surfs, model_surf)]
                         ELSE logger]

\* One call of the evaluate function (c_fun passes the reference state of
\* create_cost_func on to cost_function).
Evaluate(b) ==
    /\ mode = "evaluate"
    /\ Len(calls) < MaxCalls
    /\ LET r == cost_function(b, inp.lambdas, inp.ref_surf, inp.ref_ice_mask,
                              inp.spinup_surf, inp.dx, data_logger,
                              inp.data_logger # NoValue)
       IN  /\ calls' = Append(calls, [b |-> b, raised |-> r.raised, ret |-> r.ret,
                                      model_ice_mask |-> r.model_ice_mask,
                                      model_inner_mask |-> r.model_inner_mask,
                                      c_terms |-> r.c_terms])
           /\ data_logger' = r.logger
    /\ UNCHANGED <<mode, inp, c_fun, created, out>>

\* A direct call of get_costs.
GetCosts ==
    /\ mode = "get_costs"
    /\ out.op = "none"
    /\ LET model_ice_mask == IceMaskOf(inp.model_surf, inp.guessed_bed)
       IN  out' = get_costs(inp.lambdas, inp.ref_surf, inp.ref_ice_mask, NoValue,
                            inp.guessed_bed, inp.model_surf, model_ice_mask,
                            InnerMaskOf(model_ice_mask), inp.dx)
    /\ UNCHANGED <<mode, inp, c_fun, created, data_logger, calls>>

\* LocalMeanSquaredDifference.apply followed by a backward pass.
Lmsd ==
    /\ mode = "lmsd"
    /\ out.op = "none"
    /\ out' = [op |-> "lmsd",
               forward |-> LmsdForward(inp.modelled_surf, inp.surface_to_match,
                                       inp.ice_region, inp.ice_mask, inp.bed),
               backward |-> LmsdBackward(inp.modelled_surf, inp.surface_to_match,
                                         inp.ice_region, inp.ice_mask, inp.bed)]
    /\ UNCHANGED <<mode, inp, c_fun, created, data_logger, calls>>

Next ==
    \/ create_cost_func
    \/ \E b \in BedVectors : Evaluate(b)
    \/ GetCosts
    \/ Lmsd

Spec == Init /\ [][Next]_vars

\* ================================================================= claims
ValidLambdas == Len(inp.lambdas) >= NTerms
LoggerAttached == inp.data_logger = "attached"
GotCosts == out.op = "get_costs" /\ out.raised = "none"
\* q1 and q2 denote the same number
SameValue(q1, q2) == q1.n * q2.d = q2.n * q1.d

\* mask values of the 3x3 window around a cell, cells off the grid left out
Window(mask, r, c) ==
    {mask[p[1]][p[2]] : p \in ((r - 1..r + 1) \X (c - 1..c + 1)) \cap Cells}

IsInnerMaskOf(inner, ice) ==
    \A r \in RowIdx : \A c \in ColIdx :
        /\ inner[r][c] \in {0, 1}
        /\ inner[r][c] = 1 => (<<r, c>> \in InteriorCells /\ Window(ice, r, c) = {1})
        /\ <<r, c>> \notin InteriorCells => inner[r][c] = 0

\* C1: every binary ice mask yields an inner mask, in create_cost_func and in
\* each cost_function call, that is binary, is 1 only where the 3x3
\* neighbourhood is all ice, and is 0 on the border rows and columns.
C1_InnerMaskDerived ==
    mode = "evaluate" =>
        /\ created # "not called" =>
               (created = "returned" /\ IsInnerMaskOf(c_fun.ref_inner_mask, inp.ref_ice_mask))
        /\ \A k \in 1..Len(calls) :
               /\ calls[k].raised # "AttributeError"
               /\ IsInnerMaskOf(calls[k].model_inner_mask, calls[k].model_ice_mask)

\* C2: the backward rule of LocalMeanSquaredDifference gives
\* (model_surf - ref_surf) * ice_mask to the first input and no gradient to
\* the other four.
C2_GradientToModelledSurf ==
    out.op = "lmsd" =>
        /\ out.backward[1] = Grad(TMul(TSub(inp.modelled_surf, inp.surface_to_match), inp.ice_mask))
        /\ \A k \in 2..5 : out.backward[k] = NoGrad

\* get_costs on the drawn inputs with weight w in place of lambdas[i]
GetCostsWith(i, w) ==
    get_costs([inp.lambdas EXCEPT ![i + 1] = w], inp.ref_surf, inp.ref_ice_mask,
              NoValue, inp.guessed_bed, inp.model_surf,
              IceMaskOf(inp.model_surf, inp.guessed_bed),
              InnerMaskOf(IceMaskOf(inp.model_surf, inp.guessed_bed)), inp.dx)

OtherSlotsUnaffected(i) ==
    \A w \in {1, 2} : \A j \in (0..(NSlots - 1)) \ {i} :
        GetCostsWith(i, w).cost[j] = out.cost[j]

\* C3 as stated: with lambdas[i] = 0 slot i stays 0, the term's normalizer
\* is never evaluated, and every other slot is what it is with a non-zero
\* lambdas[i].
C3_NormalizerNeverEvaluated ==
    (GotCosts /\ Len(inp.lambdas) = NTerms) =>
        \A i \in TermIdx : inp.lambdas[i + 1] = 0 =>
            /\ out.cost[i] = FZero
            /\ NormExpr(i) \notin out.evaluated
            /\ OtherSlotsUnaffected(i)

\* C3 amended: with lambdas[i] = 0 slot i stays 0, the term's branch is not
\* entered (so nothing is divided by its normalizer), and every other slot
\* is what it is with a non-zero lambdas[i].
C3_ZeroLambdaSkipsTerm ==
    (GotCosts /\ Len(inp.lambdas) = NTerms) =>
        \A i \in TermIdx : inp.lambdas[i + 1] = 0 =>
            /\ out.cost[i] = FZero
            /\ i \notin out.entered
            /\ OtherSlotsUnaffected(i)

\* a get_costs call with term 4's weight 0 whose term 4 would be non-finite
\* and whose term 2 is a positive number
C3_Witness ==
    /\ GotCosts /\ Len(inp.lambdas) = NTerms
    /\ inp.lambdas[5] = 0 /\ out.cost[4] = FZero
    /\ GetCostsWith(4, 1).cost[4].d = 0
    /\ out.cost[2].n > 0 /\ out.cost[2].d > 0

\* C4: with a logger attached, the entry an evaluate call appends to c_terms
\* is the 10-slot cost breakdown of that call, and its slots sum to the
\* entry of costs at the same index.
C4_LoggerGetsBreakdown ==
    (mode = "evaluate" /\ LoggerAttached /\ ValidLambdas) =>
        \A k \in 1..Len(calls) :
            /\ k <= Len(data_logger.c_terms)
            /\ k <= Len(data_logger.costs)
            /\ calls[k].raised = "none"
            /\ data_logger.c_terms[k] = calls[k].c_terms
            /\ SumSlots(calls[k].c_terms, NSlots - 1) = data_logger.costs[k]

\* C5: after any sequence of evaluate calls with a logger attached, each of
\* the five sequences has one entry per call, the k-th entry being the k-th
\* call's.
C5_LoggerOneEntryPerCall ==
    (mode = "evaluate" /\ LoggerAttached /\ ValidLambdas) =>
        /\ Len(data_logger.c_terms) = Len(calls)
        /\ Len(data_logger.costs) = Len(calls)
        /\ Len(data_logger.grads) = Len(calls)
        /\ Len(data_logger.beds) = Len(calls)
        /\ Len(data_logger.surfs) = Len(calls)
        /\ \A k \in 1..Len(calls) : data_logger.beds[k] = Reshape2D(calls[k].b)

\* C6: evaluate calls with the same flat bed vector yield the same
\* (cost, gradient).
C6_EvaluateIdempotent ==
    (mode = "evaluate" /\ ValidLambdas) =>
        \A j \in 1..Len(calls) : \A k \in 1..Len(calls) :
            calls[j].b = calls[k].b =>
                /\ calls[j].raised = "none"
                /\ calls[k].raised = "none"
                /\ calls[j].ret = calls[k].ret

\* C7: for every lambda vector the last slot of the cost breakdown is
\* sum((ref_surf - model_surf)^2) / sum(ref_ice_mask), unweighted, and the
\* scalar cost evaluate returns is the sum of the 10 slots.
C7_MisfitAlwaysComputed ==
    /\ GotCosts =>
           out.cost[NSlots - 1] = Frac(SqSum(TSub(inp.ref_surf, inp.model_surf)), TSum(inp.ref_ice_mask))
    /\ (mode = "evaluate" /\ ValidLambdas) =>
           \A k \in 1..Len(calls) :
               /\ calls[k].raised = "none"
               /\ calls[k].ret[1] = SumSlots(calls[k].c_terms, NSlots - 1)

\* C8: term 1 (ice thickness) and term 2 (bed) use the same central
\* difference and the same normalizer, so with the ice thickness field equal
\* to the bed field and equal weights the two slots hold the same value.
C8_GradientTermsAgree ==
    (GotCosts /\ TSub(inp.model_surf, inp.guessed_bed) = inp.guessed_bed
       /\ inp.lambdas[1] = inp.lambdas[2]) =>
        SameValue(out.cost[0], out.cost[1])

\* C9: an evaluate call with fewer than 9 lambdas raises, returns nothing and
\* appends nothing to the logger; get_costs itself raises IndexError on such
\* a vector.
C9_ShortLambdaFails ==
    /\ (mode = "evaluate" /\ ~ValidLambdas) =>
           /\ \A k \in 1..Len(calls) : calls[k].raised # "none"
           /\ data_logger = EmptyLogger
    /\ (out.op = "get_costs" /\ ~ValidLambdas) => out.raised = "IndexError"

\* two evaluate calls with a short lambda vector and a logger attached
C9_Witness ==
    /\ mode = "evaluate" /\ ~ValidLambdas /\ LoggerAttached
    /\ Len(inp.lambdas) > 0
    /\ Len(calls) >= 2

\* C10: with non-negative weights and binary masks every slot with a
\* non-zero normalizer is >= 0; the weighting field of term 7,
\* ref_ice_mask - model_inner_mask, is binary and its normalizer is >= 0.
C10_CostNonNegative ==
    GotCosts =>
        LET ring == TSub(inp.ref_ice_mask, InnerMaskOf(IceMaskOf(inp.model_surf, inp.guessed_bed)))
        IN  /\ \A k \in 0..(NSlots - 1) : out.cost[k].d # 0 => out.cost[k].n * out.cost[k].d >= 0
            /\ \A r \in RowIdx : \A c \in ColIdx : ring[r][c] \in {0, 1}
            /\ 2 * InteriorSum(ring) >= 0

====
